---- MODULE Spec2Model ----
(***************************************************************************)
(* A model of scripts/download_c2db.py: the crawl of the paginated C2DB    *)
(* table (collect_slugs), the per-material download (download_material,    *)
(* download_file) and the manifest written by main, over repeated runs     *)
(* that share one disk.                                                    *)
(*                                                                         *)
(* A page is a sequence of tokens: a material link (what MATERIAL_PATH_RE  *)
(* matches, with the slug it captures), a pagination link (what PAGE_RE    *)
(* matches, with the digits it captures) or text that matches neither.     *)
(***************************************************************************)
EXTENDS Integers, Sequences, FiniteSets, TLC

VARIABLES
    catalog,        \* the server: page index -> page text
    max_materials,  \* args.max_materials: [given |-> FALSE] is None
    run,            \* number of the current run of main
    pc,             \* position of main
    last_page,      \* collect_slugs: last_page
    page,           \* collect_slugs: the loop variable page
    slugs,          \* collect_slugs / main: slugs
    seen,           \* collect_slugs: seen
    crawled,        \* what collect_slugs returned to main, before main cuts it
    manifest,       \* main: manifest
    index,          \* main: position of the download loop in slugs
    disk,           \* files on disk: path -> the chunks the file holds
    dirs,           \* directories on disk
    manifest_file,  \* the manifest on disk
    log,            \* the requests, pauses and disk writes of the current run
    failure,        \* the exception that ended the current run, if one did
    past,           \* failure and log of each earlier run
    disk0           \* disk at the start of the current run

vars == <<catalog, max_materials, run, pc, last_page, page, slugs, seen, crawled,
          manifest, index, disk, dirs, manifest_file, log, failure, past, disk0>>

-----------------------------------------------------------------------------
(* Bounds of the model *)

MaxLen == 2             \* tokens per page in the crawl and in the runs
MaxPage == 1            \* the crawled server has pages 0..MaxPage
MaxParseLen == 4        \* tokens per page when a page is only parsed
MaxRuns == 2            \* runs of main over the same disk
NumChunks == 2          \* chunks in the body of a file response
MaxLimit == 2           \* --max-materials ranges over -MaxLimit..MaxLimit

Slugs == {"A", "B", "C"}

-----------------------------------------------------------------------------
(* Page text *)

Link(s) == [t |-> "href", slug |-> s, digits |-> <<>>]
Marker(ds) == [t |-> "page", slug |-> "", digits |-> ds]
Text == [t |-> "text", slug |-> "", digits |-> <<>>]

\* the matches of a pattern, in the order of the text
Select(html, kind) == SelectSeq(html, LAMBDA tok : tok.t = kind)

\* MATERIAL_PATH_RE.finditer(html), group 1 of each match
MATERIAL_PATH_RE(html) ==
    LET m == Select(html, "href") IN [i \in 1..Len(m) |-> m[i].slug]

\* PAGE_RE.findall(html): the digits of each match
PAGE_RE(html) ==
    LET m == Select(html, "page") IN [i \in 1..Len(m) |-> m[i].digits]

\* int(value) of a string of decimal digits
RECURSIVE int(_)
int(value) ==
    IF value = <<>> THEN 0
    ELSE 10 * int(SubSeq(value, 1, Len(value) - 1)) + value[Len(value)]

\* a resolver that takes the last marker of the page
max_last(pages) == pages[Len(pages)]

\* max(pages) of a non-empty list
max(pages) ==
    CHOOSE m \in {pages[i] : i \in 1..Len(pages)} :
        \A i \in 1..Len(pages) : pages[i] <= m

fallback == 0

extract_last_page(html) ==
    LET found == PAGE_RE(html)
        pages == [i \in 1..Len(found) |-> int(found[i])]
    IN  IF pages = <<>> THEN fallback ELSE max(pages)

\* a merge that does not look into seen
add_all(acc, found) ==
    [slugs |-> acc.slugs \o found,
     seen |-> acc.seen \cup {found[i] : i \in 1..Len(found)}]

\* the loop "if slug not in seen: append, add" over the list found, from the
\* state [slugs, seen]
RECURSIVE add_unseen(_, _)
add_unseen(acc, found) ==
    IF found = <<>> THEN acc
    ELSE LET slug == Head(found) IN
         add_unseen(IF slug \notin acc.seen
                    THEN [slugs |-> Append(acc.slugs, slug),
                          seen |-> acc.seen \cup {slug}]
                    ELSE acc,
                    Tail(found))

extract_material_slugs(html) ==
    add_unseen([slugs |-> <<>>, seen |-> {}], MATERIAL_PATH_RE(html)).slugs

-----------------------------------------------------------------------------
(* Events of a run *)

NoPath == <<>>
Event(op, p, path) == [op |-> op, page |-> p, path |-> path]
GetPage(p) == Event("get_page", p, NoPath)
Sleep == Event("sleep", -1, NoPath)

\* the network answers a request with an error status, or breaks
PageError(p) == Event("error", p, NoPath)
FileError(url) == Event("error", -1, url)

\* a pause that is left out
no_sleep(events) == events

\* time.sleep(delay)
sleep(events) == Append(events, Sleep)

NoFailure == [at |-> "none", page |-> -1, path |-> NoPath]
Failed(at, p, path) == [at |-> at, page |-> p, path |-> path]

NoLimit == [given |-> FALSE, n |-> 0]
Limit(n) == [given |-> TRUE, n |-> n]

-----------------------------------------------------------------------------
(* collect_slugs *)

\* lines 67-77: page 0 is fetched and parsed; a failed fetch raises
CollectFirst ==
    /\ pc = "collect"
    /\ \/ /\ LET html == catalog[0]
                 acc == add_unseen([slugs |-> <<>>, seen |-> {}],
                                   extract_material_slugs(html))
             IN  /\ last_page' = extract_last_page(html)
                 /\ slugs' = acc.slugs
                 /\ seen' = acc.seen
          /\ page' = 1
          /\ pc' = "pages"
          /\ log' = Append(log, GetPage(0))
          /\ UNCHANGED failure
       \/ /\ pc' = "aborted"
          /\ failure' = Failed("page", 0, NoPath)
          /\ log' = log \o <<GetPage(0), PageError(0)>>
          /\ UNCHANGED <<last_page, slugs, seen, page>>
    /\ UNCHANGED <<catalog, max_materials, run, crawled, manifest, index, disk,
                   dirs, manifest_file, past, disk0>>

\* lines 79-87: one iteration of the loop over pages 1..last_page
CollectPage ==
    /\ pc = "pages"
    /\ page <= last_page
    /\ \/ /\ LET html == catalog[page]
                 acc == add_unseen([slugs |-> slugs, seen |-> seen],
                                   extract_material_slugs(html))
             IN  /\ slugs' = acc.slugs
                 /\ seen' = acc.seen
          /\ log' = sleep(Append(log, GetPage(page)))
          /\ page' = page + 1
          /\ UNCHANGED <<pc, failure>>
       \/ /\ pc' = "aborted"
          /\ failure' = Failed("page", page, NoPath)
          /\ log' = log \o <<GetPage(page), PageError(page)>>
          /\ UNCHANGED <<slugs, seen, page>>
    /\ UNCHANGED <<catalog, max_materials, run, last_page, crawled, manifest,
                   index, disk, dirs, manifest_file, past, disk0>>

-----------------------------------------------------------------------------
(* Paths *)

\* args.output
out_dir == <<"out">>

\* Path / name
Join(path, name) == Append(path, name)

\* a path that is left as it is
not_relative(path, base) == path

\* Path.relative_to(base), for a path under base
relative_to(path, base) == SubSeq(path, Len(base) + 1, Len(path))

\* Path.parent
parent(path) == SubSeq(path, 1, Len(path) - 1)

\* str(path) of a relative path
RECURSIVE str(_)
str(path) ==
    IF Len(path) = 0 THEN "."
    ELSE IF Len(path) = 1 THEN path[1]
    ELSE str(parent(path)) \o "/" \o path[Len(path)]

\* args.manifest is None: manifest_path = out_dir / "manifest.json"
manifest_path == Join(out_dir, "manifest.json")

\* DOWNLOAD_TYPES.items(), in the order of the dictionary
DOWNLOAD_TYPES ==
    << [kind |-> "json", suffix |-> "json"], [kind |-> "cif", suffix |-> "cif"] >>

\* f"{BASE_URL}/material/{slug}/download/{kind}"
Url(slug, kind) == <<"material", slug, "download", kind>>

material_dir(slug) == Join(out_dir, slug)

destination(slug, suffix) == Join(material_dir(slug), slug \o "." \o suffix)

\* the body the server sends for a file, as the chunks of iter_content
Body(url) == [i \in 1..NumChunks |-> <<url[2], url[4], i>>]

GetFile(url) == Event("get_file", -1, url)
Open(path) == Event("open", -1, path)
Mkdir(path) == Event("mkdir", -1, path)
WriteManifestEvent == Event("write_manifest", -1, manifest_path)

\* what the network does to one file request: the response is an error
\* (sent = -1), or it is a success whose body breaks after sent chunks
\* (sent < NumChunks) or arrives whole (sent = NumChunks)
Outcomes == -1..NumChunks

-----------------------------------------------------------------------------
(* download_file, download_material, write_manifest *)

\* a download that does not look for the file first
download_file_always(st, url, dest, sent) ==
    IF sent < 0
    THEN [st EXCEPT !.log = @ \o <<GetFile(url), FileError(url)>>,
                    !.failure = Failed("fetch", -1, dest)]
    ELSE LET written == SubSeq(Body(url), 1, sent)
             opened == [st EXCEPT !.log = @ \o <<GetFile(url), Open(dest)>>,
                                  !.disk = (dest :> written) @@ @]
         IN  IF sent < NumChunks
             THEN [opened EXCEPT !.log = Append(@, FileError(url)),
                                 !.failure = Failed("stream", -1, dest)]
             ELSE [opened EXCEPT !.log = sleep(@)]

\* a download that goes on after an error response
download_file_lenient(st, url, dest, sent) ==
    IF dest \in DOMAIN st.disk THEN st
    ELSE IF sent < 0
    THEN [st EXCEPT !.log = @ \o <<GetFile(url), FileError(url)>>]
    ELSE LET written == SubSeq(Body(url), 1, sent)
             opened == [st EXCEPT !.log = @ \o <<GetFile(url), Open(dest)>>,
                                  !.disk = (dest :> written) @@ @]
         IN  IF sent < NumChunks
             THEN [opened EXCEPT !.log = Append(@, FileError(url)),
                                 !.failure = Failed("stream", -1, dest)]
             ELSE [opened EXCEPT !.log = sleep(@)]

\* lines 101-111, from the state st = [disk, dirs, log, failure]
download_file(st, url, dest, sent) ==
    IF dest \in DOMAIN st.disk THEN st
    ELSE IF sent < 0
    THEN [st EXCEPT !.log = @ \o <<GetFile(url), FileError(url)>>,
                    !.failure = Failed("fetch", -1, dest)]
    ELSE LET written == SubSeq(Body(url), 1, sent)
             opened == [st EXCEPT !.log = @ \o <<GetFile(url), Open(dest)>>,
                                  !.disk = (dest :> written) @@ @]
         IN  IF sent < NumChunks
             THEN [opened EXCEPT !.log = Append(@, FileError(url)),
                                 !.failure = Failed("stream", -1, dest)]
             ELSE [opened EXCEPT !.log = sleep(@)]

\* lines 126-130: the loop over DOWNLOAD_TYPES from position i, stopped by
\* the first exception
RECURSIVE download_kinds(_, _, _, _)
download_kinds(st, slug, sent, i) ==
    IF i > Len(DOWNLOAD_TYPES) \/ st.failure # NoFailure THEN st
    ELSE LET kind == DOWNLOAD_TYPES[i].kind
             dest == destination(slug, DOWNLOAD_TYPES[i].suffix)
             got == download_file([disk |-> st.disk, dirs |-> st.dirs,
                                   log |-> st.log, failure |-> st.failure],
                                  Url(slug, kind), dest, sent[i])
             next == [disk |-> got.disk, dirs |-> got.dirs, log |-> got.log,
                      failure |-> got.failure,
                      entry |-> IF got.failure = NoFailure
                                THEN (kind :> str(relative_to(dest, out_dir)))
                                     @@ st.entry
                                ELSE st.entry]
         IN  download_kinds(next, slug, sent, i + 1)

\* lines 122-131
download_material(st, slug, sent) ==
    download_kinds([disk |-> st.disk,
                    dirs |-> st.dirs \cup {out_dir, material_dir(slug)},
                    log |-> Append(st.log, Mkdir(material_dir(slug))),
                    failure |-> NoFailure,
                    entry |-> [slug |-> slug]],
                   slug, sent, 1)

\* a record put at the head of the manifest
prepend_record(records, entry) == <<entry>> \o records

\* manifest.append(...)
append_record(records, entry) == Append(records, entry)

\* json.dump(list(manifest), indent=2) and the newline written after it
write_manifest(records) == [exists |-> TRUE, records |-> records, newline |-> TRUE]

NoManifest == [exists |-> FALSE, records |-> <<>>, newline |-> FALSE]

\* slugs[:n]
Slice(s, n) ==
    IF n >= 0 THEN SubSeq(s, 1, IF n < Len(s) THEN n ELSE Len(s))
    ELSE SubSeq(s, 1, IF Len(s) + n > 0 THEN Len(s) + n ELSE 0)

-----------------------------------------------------------------------------
(* main *)

\* lines 185-193
Start ==
    /\ pc = "main"
    /\ dirs' = dirs \cup {out_dir}
    /\ pc' = "collect"
    /\ UNCHANGED <<catalog, max_materials, run, last_page, page, slugs, seen,
                   crawled, manifest, index, disk, manifest_file, log, failure,
                   past, disk0>>

\* lines 89-90 and 194-200: collect_slugs returns, main cuts the list
Truncate ==
    /\ pc = "pages"
    /\ page > last_page
    /\ crawled' = slugs
    /\ slugs' = IF max_materials.given THEN Slice(slugs, max_materials.n) ELSE slugs
    /\ manifest' = <<>>
    /\ index' = 1
    /\ pc' = "download"
    /\ UNCHANGED <<catalog, max_materials, run, last_page, page, seen, disk, dirs,
                   manifest_file, log, failure, past, disk0>>

\* the request for file i of slug is made under the outcomes sent: the file is
\* not on disk and every file before it was fetched whole or was on disk
Requested(files, slug, sent, i) ==
    /\ destination(slug, DOWNLOAD_TYPES[i].suffix) \notin DOMAIN files
    /\ \A j \in 1..(i - 1) :
          \/ destination(slug, DOWNLOAD_TYPES[j].suffix) \in DOMAIN files
          \/ sent[j] = NumChunks

\* lines 201-205: one iteration of the loop over slugs; a request that is not
\* made has no outcome of its own
DownloadMaterial ==
    /\ pc = "download"
    /\ index <= Len(slugs)
    /\ \E sent \in [1..Len(DOWNLOAD_TYPES) -> Outcomes] :
        LET r == download_material([disk |-> disk, dirs |-> dirs, log |-> log],
                                   slugs[index], sent)
        IN  /\ \A i \in 1..Len(DOWNLOAD_TYPES) :
                  ~Requested(disk, slugs[index], sent, i) => sent[i] = NumChunks
            /\ disk' = r.disk
            /\ dirs' = r.dirs
            /\ log' = r.log
            /\ failure' = r.failure
            /\ IF r.failure = NoFailure
               THEN /\ manifest' = append_record(manifest, r.entry)
                    /\ index' = index + 1
                    /\ UNCHANGED pc
               ELSE /\ pc' = "aborted"
                    /\ UNCHANGED <<manifest, index>>
    /\ UNCHANGED <<catalog, max_materials, run, last_page, page, slugs, seen,
                   crawled, manifest_file, past, disk0>>

\* lines 207-209
WriteManifest ==
    /\ pc = "download"
    /\ index > Len(slugs)
    /\ manifest_file' = write_manifest(manifest)
    /\ dirs' = dirs \cup {parent(manifest_path)}
    /\ log' = Append(log, WriteManifestEvent)
    /\ pc' = "done"
    /\ UNCHANGED <<catalog, max_materials, run, last_page, page, slugs, seen,
                   crawled, manifest, index, disk, failure, past, disk0>>

\* the script is started again with the same arguments, on the same disk
Rerun ==
    /\ pc \in {"done", "aborted"}
    /\ run < MaxRuns
    /\ run' = run + 1
    /\ past' = Append(past, [failure |-> failure, log |-> log, slugs |-> slugs,
                              manifest_file |-> manifest_file])
    /\ disk0' = disk
    /\ pc' = "main"
    /\ last_page' = 0
    /\ page' = 0
    /\ slugs' = <<>>
    /\ seen' = {}
    /\ crawled' = <<>>
    /\ manifest' = <<>>
    /\ index' = 1
    /\ log' = <<>>
    /\ failure' = NoFailure
    /\ UNCHANGED <<catalog, max_materials, disk, dirs, manifest_file>>

-----------------------------------------------------------------------------
(* Inputs and specifications *)

RECURSIVE Texts(_, _)
Texts(tokens, n) ==
    IF n = 0 THEN {<<>>}
    ELSE LET shorter == Texts(tokens, n - 1)
         IN  shorter \cup {Append(s, tok) : s \in shorter, tok \in tokens}

Links == {Link(s) : s \in Slugs}
Markers(n) == {Marker(<<d>>) : d \in 0..n}

\* numerals a pagination link can carry: one digit, two digits, a leading zero
Numerals == {<<0>>, <<1>>, <<2>>, <<3>>, <<9>>, <<1, 0>>, <<0, 2>>}

Limits == {NoLimit} \cup {Limit(n) : n \in -MaxLimit..MaxLimit}

Fresh ==
    /\ run = 1
    /\ last_page = 0
    /\ page = 0
    /\ slugs = <<>>
    /\ seen = {}
    /\ crawled = <<>>
    /\ manifest = <<>>
    /\ index = 1
    /\ disk = <<>>
    /\ dirs = {}
    /\ manifest_file = NoManifest
    /\ log = <<>>
    /\ failure = NoFailure
    /\ past = <<>>
    /\ disk0 = <<>>

\* the catalog of two pages: A, B and A again on page 0, with a link to
\* page 1; B and C on page 1
Scenario ==
    0 :> <<Link("A"), Link("B"), Link("A"), Marker(<<1>>)>>
    @@ 1 :> <<Link("B"), Link("C")>>

\* catalogs of pages 0..n: pagination links are on the first page only
Catalogs(n) ==
    {c \in [0..n -> Texts(Links \cup Markers(n), MaxLen)] :
        \A p \in 1..n : \A k \in 1..Len(c[p]) : c[p][k].t = "href"}

\* runs of main, over the catalogs of one page and the catalog of two pages
Init ==
    /\ catalog \in Catalogs(0) \cup {Scenario}
    /\ max_materials \in Limits
    /\ pc = "main"
    /\ Fresh

Next ==
    \/ Start
    \/ CollectFirst
    \/ CollectPage
    \/ Truncate
    \/ DownloadMaterial
    \/ WriteManifest
    \/ Rerun

Spec == Init /\ [][Next]_vars

\* collect_slugs on its own, over larger catalogs
InitCrawl ==
    /\ catalog \in Catalogs(MaxPage) \cup {Scenario}
    /\ max_materials = NoLimit
    /\ pc = "collect"
    /\ Fresh

NextCrawl ==
    \/ CollectFirst
    \/ CollectPage
    \/ Truncate

SpecCrawl == InitCrawl /\ [][NextCrawl]_vars

\* the two parsers on their own, over longer pages
ParseLastPage ==
    /\ pc = "parse"
    /\ last_page' = extract_last_page(catalog[0])
    /\ pc' = "parsed_pages"
    /\ UNCHANGED <<catalog, max_materials, run, page, slugs, seen, crawled,
                   manifest, index, disk, dirs, manifest_file, log, failure,
                   past, disk0>>

ParseSlugs ==
    /\ pc = "parsed_pages"
    /\ slugs' = extract_material_slugs(catalog[0])
    /\ pc' = "parsed"
    /\ UNCHANGED <<catalog, max_materials, run, last_page, page, seen, crawled,
                   manifest, index, disk, dirs, manifest_file, log, failure,
                   past, disk0>>

InitParse ==
    /\ catalog \in [{0} -> Texts({Link("A"), Link("B"), Text}
                                   \cup {Marker(ds) : ds \in Numerals},
                                 MaxParseLen)]
    /\ max_materials = NoLimit
    /\ pc = "parse"
    /\ Fresh

NextParse ==
    \/ ParseLastPage
    \/ ParseSlugs

SpecParse == InitParse /\ [][NextParse]_vars

-----------------------------------------------------------------------------
(* What the page texts say, stated without the parsers *)

Pow10(n) == IF n = 0 THEN 1 ELSE IF n = 1 THEN 10 ELSE 100

\* the number a string of at most three digits writes
Decimal(ds) ==
    IF Len(ds) = 0 THEN 0
    ELSE IF Len(ds) = 1 THEN ds[1]
    ELSE IF Len(ds) = 2 THEN ds[1] * Pow10(1) + ds[2]
    ELSE ds[1] * Pow10(2) + ds[2] * Pow10(1) + ds[3]

\* the page numbers of the pagination links of a text
PageNumbers(html) ==
    {Decimal(html[i].digits) : i \in {j \in 1..Len(html) : html[j].t = "page"}}

\* the highest page of a catalog whose first page is html
Highest(html) ==
    IF PageNumbers(html) = {} THEN 0
    ELSE CHOOSE n \in PageNumbers(html) : \A m \in PageNumbers(html) : m <= n

\* the digits of the pagination links of a text, in order
MarkerDigits(html) ==
    LET idx == {j \in 1..Len(html) : html[j].t = "page"}
    IN  [j \in idx |-> html[j].digits]

\* the places (page, position) at which slug s is linked on pages 0..n
Occurrences(s, n) ==
    UNION {{<<p, k>> : k \in {j \in 1..Len(catalog[p]) :
                                 /\ catalog[p][j].t = "href"
                                 /\ catalog[p][j].slug = s}} : p \in 0..n}

Before(a, b) == a[1] < b[1] \/ (a[1] = b[1] /\ a[2] < b[2])

First(s, n) ==
    CHOOSE a \in Occurrences(s, n) : \A b \in Occurrences(s, n) : a = b \/ Before(a, b)

Count(events, op) == Len(SelectSeq(events, LAMBDA e : e.op = op))

-----------------------------------------------------------------------------
\* C6: extract_last_page returns 0 for a page without pagination link and
\* otherwise the greatest page number over all the links, in any order, not
\* the first or the last one.
C6_LastPageIsMaximum ==
    pc \in {"parsed_pages", "parsed"} =>
        /\ PageNumbers(catalog[0]) = {} => last_page = 0
        /\ PageNumbers(catalog[0]) # {} =>
              /\ last_page \in PageNumbers(catalog[0])
              /\ \A n \in PageNumbers(catalog[0]) : n <= last_page

\* the markers 0, 3, 1, 2 in this order resolve to 3
C6_Witness ==
    /\ pc = "parsed_pages"
    /\ catalog[0] = <<Marker(<<0>>), Marker(<<3>>), Marker(<<1>>), Marker(<<2>>)>>
    /\ last_page = 3

\* C1: when every page fetch succeeds, collect_slugs returns the identifiers
\* linked on pages 0..lastPage, each once, in the order of their first
\* appearance (page, then position in the page).
C1_FirstSeenUnion ==
    pc = "download" =>
        LET n == Highest(catalog[0]) IN
        /\ \A i, j \in 1..Len(crawled) : crawled[i] = crawled[j] => i = j
        /\ {crawled[i] : i \in 1..Len(crawled)}
              = {s \in Slugs : Occurrences(s, n) # {}}
        /\ \A i, j \in 1..Len(crawled) :
              i < j => Before(First(crawled[i], n), First(crawled[j], n))

\* two pages, three identifiers, one of them linked on both pages and one
\* linked twice on a page
C1_Witness ==
    /\ pc = "download"
    /\ Highest(catalog[0]) = 1
    /\ Len(crawled) = 3
    /\ \E s \in Slugs : \E a, b \in Occurrences(s, 1) : a[1] # b[1]
    /\ \E s \in Slugs : \E a, b \in Occurrences(s, 1) : a[1] = b[1] /\ a[2] # b[2]

\* the events of a crawl that has fetched pages 0..n
RECURSIVE CrawlLog(_)
CrawlLog(n) ==
    IF n = 0 THEN <<GetPage(0)>> ELSE CrawlLog(n - 1) \o <<GetPage(n), Sleep>>

-----------------------------------------------------------------------------
(* The files of an identifier, as the interface names them *)

Kinds == {"json", "cif"}

\* {output}/{identifier}/{identifier}.{suffix}
Dest(s, k) == <<"out", s, s \o "." \o k>>

\* {identifier}/{identifier}.{suffix}, relative to the output root
RelPath(s, k) == s \o "/" \o s \o "." \o k

\* GET {base}/material/{identifier}/download/{kind}
FileUrl(s, k) == <<"material", s, "download", k>>

Record(s) == [slug |-> s, json |-> RelPath(s, "json"), cif |-> RelPath(s, "cif")]

Only(events, op) == SelectSeq(events, LAMBDA e : e.op = op)

\* the manifest on disk when the current run started
ManifestAtStart == IF past = <<>> THEN NoManifest ELSE past[Len(past)].manifest_file

\* the run before the current one
Prev == past[Len(past)]

HasBoth(s, files) == \A k \in Kinds : Dest(s, k) \in DOMAIN files

\* the crawl of the current run has fetched every page 0..lastPage
CrawlDone ==
    LET done == CrawlLog(Highest(catalog[0]))
    IN  Len(log) >= Len(done) /\ SubSeq(log, 1, Len(done)) = done

\* C2: download_material of an identifier whose two files exist makes no
\* request, writes no file and does not pause; it leaves the disk as it is
\* and returns the record of the two existing paths, relative to the root.
C2_ExistingFilesAreNotFetched ==
    [][(/\ pc = "download"
        /\ index <= Len(slugs)
        /\ HasBoth(slugs[index], disk))
       => /\ disk' = disk
          /\ log' = Append(log, Mkdir(<<"out", slugs[index]>>))
          /\ manifest' = Append(manifest, Record(slugs[index]))
          /\ pc' = "download"]_vars

C2_Witness ==
    /\ run > 1
    /\ pc = "download"
    /\ Len(manifest) >= 1
    /\ HasBoth(slugs[1], disk0)
    /\ Only(log, "get_file") = <<>>
    /\ Only(log, "mkdir") # <<>>

\* C3: a run writes the manifest at most once, as its last step, after the
\* crawl and the download of every identifier of the list succeeded; a run in
\* which a request fails writes no manifest and does not end with outcome 0.
C3_ManifestOnlyAfterSuccess ==
    LET writes == {i \in 1..Len(log) : log[i].op = "write_manifest"} IN
    /\ Cardinality(writes) <= 1
    /\ writes # {} =>
          /\ writes = {Len(log)}
          /\ pc = "done"
          /\ Only(log, "error") = <<>>
          /\ CrawlDone
          /\ Len(manifest) = Len(slugs)
          /\ \A i \in 1..Len(slugs) :
                HasBoth(slugs[i], disk) /\ manifest[i].slug = slugs[i]
          /\ manifest_file.records = manifest
    /\ writes = {} => manifest_file = ManifestAtStart /\ pc # "done"
    /\ Only(log, "error") # <<>> => writes = {} /\ pc = "aborted"

\* a run that downloaded one identifier and failed on a later request
C3_Witness ==
    /\ pc = "aborted"
    /\ failure.at = "fetch"
    /\ Len(manifest) >= 1
    /\ Only(log, "write_manifest") = <<>>

\* the download of the second identifier failed on its cif file
CifOfSecondFailed(f, list) ==
    /\ Len(list) >= 2
    /\ f.at \in {"fetch", "stream"}
    /\ f.path = Dest(list[2], "cif")

\* C4: when the cif request of the second identifier fails the run aborts
\* without a manifest, and the json file of that identifier and both files of
\* the first stay on disk; a rerun requests no file that was on disk when it
\* started, requests nothing but the cif file for that identifier, and, the
\* cif file being missing, requests it once.
C4_RerunFetchesOnlyMissing ==
    /\ (pc = "aborted" /\ CifOfSecondFailed(failure, slugs)) =>
          /\ Only(log, "write_manifest") = <<>>
          /\ manifest_file = ManifestAtStart
          /\ Dest(slugs[2], "json") \in DOMAIN disk
          /\ HasBoth(slugs[1], disk)
    /\ \A i \in 1..Len(log) :
          log[i].op = "get_file" =>
              Dest(log[i].path[2], log[i].path[4]) \notin DOMAIN disk0
    /\ (run > 1 /\ CifOfSecondFailed(Prev.failure, Prev.slugs)) =>
          LET s == Prev.slugs[2]
              gets == SelectSeq(log, LAMBDA e : e.op = "get_file" /\ e.path[2] = s)
          IN  /\ \A i \in 1..Len(gets) : gets[i] = GetFile(FileUrl(s, "cif"))
              /\ (Prev.failure.at = "fetch" /\ pc = "done") =>
                    gets = <<GetFile(FileUrl(s, "cif"))>>
              /\ HasBoth(Prev.slugs[1], disk0)
              /\ Dest(s, "json") \in DOMAIN disk0

C4_Witness ==
    /\ run > 1
    /\ pc = "done"
    /\ CifOfSecondFailed(Prev.failure, Prev.slugs)
    /\ Prev.failure.at = "fetch"
    /\ Len(slugs) = 2
    /\ Only(log, "get_file") = <<GetFile(FileUrl(slugs[2], "cif"))>>

\* C5: a file that a run finds on disk, and so does not fetch, holds the whole
\* body of a successful response.
C5_SkippedFilesAreComplete ==
    \A i \in 1..Len(manifest) : \A k \in Kinds :
        Dest(manifest[i].slug, k) \in DOMAIN disk0 =>
            disk[Dest(manifest[i].slug, k)] = Body(FileUrl(manifest[i].slug, k))

\* C7: with --max-materials N the identifiers downloaded are the first
\* min(N, length) entries of the crawled list, for every integer N, and no
\* directory, request or file is made for another identifier.
C7_FirstNEntries ==
    (pc \in {"download", "done"} /\ max_materials.given) =>
        LET n == IF max_materials.n < Len(crawled) THEN max_materials.n
                 ELSE Len(crawled)
            kept == IF n <= 0 THEN <<>> ELSE SubSeq(crawled, 1, n)
        IN  /\ slugs = kept
            /\ \A i \in 1..Len(log) :
                  log[i].op \in {"mkdir", "get_file", "open"} =>
                      \E j \in 1..Len(kept) : log[i].path[2] = kept[j]

\* C8: every record of the in-memory manifest names {id}/{id}.json and
\* {id}/{id}.cif, and both files are on disk, written in this run or present
\* when it started.
C8_RecordsPointToFiles ==
    \A i \in 1..Len(manifest) :
        /\ i <= Len(slugs)
        /\ manifest[i] = Record(slugs[i])
        /\ \A k \in Kinds :
              /\ Dest(slugs[i], k) \in DOMAIN disk
              /\ \/ Dest(slugs[i], k) \in DOMAIN disk0
                 \/ \E j \in 1..Len(log) : log[j] = Open(Dest(slugs[i], k))

\* one record with a file of an earlier run and a file of this run
C8_Witness ==
    /\ Len(manifest) = 2
    /\ Dest(slugs[2], "json") \in DOMAIN disk0
    /\ Dest(slugs[2], "cif") \notin DOMAIN disk0
    /\ \E j \in 1..Len(log) : log[j] = Open(Dest(slugs[2], "cif"))

\* C10: download_material is called once for each identifier of the list, in
\* the order of the list and after the whole crawl; the manifest of a
\* successful run holds one record for each identifier, in that order.
C10_OneDownloadPerIdentifierInOrder ==
    LET calls == Only(log, "mkdir")
        first == CHOOSE i \in 1..Len(log) :
                     log[i].op = "mkdir" /\ \A j \in 1..(i - 1) : log[j].op # "mkdir"
    IN  /\ Len(calls) <= Len(slugs)
        /\ \A i \in 1..Len(calls) : calls[i] = Mkdir(<<"out", slugs[i]>>)
        /\ calls # <<>> =>
              /\ CrawlDone
              /\ \A j \in first..Len(log) : log[j].op # "get_page"
        /\ pc = "download" => Len(calls) = Len(manifest)
        /\ pc = "done" =>
              /\ Len(calls) = Len(slugs)
              /\ manifest_file.exists
              /\ Len(manifest_file.records) = Len(slugs)
              /\ \A i \in 1..Len(slugs) : manifest_file.records[i].slug = slugs[i]

\* the catalog of two pages gives the records of A, B and C in this order
C10_Witness ==
    /\ catalog = Scenario
    /\ ~max_materials.given
    /\ pc = "done"
    /\ slugs = <<"A", "B", "C">>
    /\ manifest_file.records = <<Record("A"), Record("B"), Record("C")>>
    /\ Len(Only(log, "mkdir")) = 3

====
